---- MODULE Spec2Model ----
(***************************************************************************)
(* Model of src/app.py: a Streamlit script that loads two MongoDB          *)
(* collections, reads the sidebar filters and then runs the refresh loop   *)
(* (schedule gate, quote fetch, history fetch, variation, chart, filtered  *)
(* tables, sleep, st.rerun).                                               *)
(*                                                                         *)
(* Script-runner semantics the script relies on:                           *)
(*  - st.rerun() and st.stop() raise control exceptions that derive from   *)
(*    BaseException, so `except Exception` (line 258) does not catch them; *)
(*    st.rerun() restarts the script from line 1 with fresh variables,     *)
(*    st.stop() ends the script run.                                       *)
(*  - a widget call returns the value held by the session for this script  *)
(*    run; a change made in the browser is delivered as a rerun request,   *)
(*    which the runner serves at the next st.* element call of the running *)
(*    script by restarting it with the new widget values.                  *)
(***************************************************************************)
EXTENDS Integers, Sequences, FiniteSets, TLC

VARIABLES
  pc,                       \* position of the script
  db,                       \* MongoDB: what the two collections answer now
  pedidos_raw, ordens_raw,  \* lines 95-96
  df_pedidos, df_ordens,    \* lines 104-123
  hoje,                     \* line 127
  uiSpec,                   \* filter widgets as set in the browser
  sessSpec,                 \* widget values of the running script run
  pendingRerun,             \* a widget change waits for the next st.* call
  data_filtrada, condicao_selecionada, pedido_filho_selecionado,
  status_selecionado, armazem_selecionado,          \* lines 128-140
  agora,                    \* line 32 (local of dentro_do_horario)
  aberto,                   \* result of the last dentro_do_horario()
  cotacao,                  \* line 153
  hist_data, df_hist,       \* lines 160, 168-176
  variacao,                 \* line 184
  df_pedidos_filtrado, df_ordens_filtrado,          \* lines 236-245
  emitido,                  \* elements rendered by this script run
  avisos,                   \* messages shown by this script run
  dormiu,                   \* seconds slept by the last step
  specNoGate,               \* uiSpec when the gate was last evaluated
  primeiro_ciclo            \* inputs and content of the first complete cycle

vars == <<pc, db, pedidos_raw, ordens_raw, df_pedidos, df_ordens, hoje,
          uiSpec, sessSpec, pendingRerun, data_filtrada,
          condicao_selecionada, pedido_filho_selecionado,
          status_selecionado, armazem_selecionado, agora, aberto, cotacao,
          hist_data, df_hist, variacao, df_pedidos_filtrado,
          df_ordens_filtrado, emitido, avisos, dormiu, specNoGate,
          primeiro_ciclo>>

-----------------------------------------------------------------------------
(* Values *)

None == <<>>
Some(x) == <<x>>

\* raw scalar of a document or of a JSON body: a number, a string that is not
\* a number, a missing value (NaN/None), or an absent key
Num(n) == [t |-> "num", v |-> n]
Str == [t |-> "str", v |-> 0]
NaN == [t |-> "nan", v |-> 0]
Abs == [t |-> "abs", v |-> 0]

\* raw creation timestamp: calendar day d in its own offset; off = 1 when the
\* same instant falls on the next calendar day in UTC (tz-aware values only)
Ts(d, off) == [t |-> "ts", d |-> d, off |-> off]
TsStr == [t |-> "str", d |-> 0, off |-> 0]
TsNaN == [t |-> "nan", d |-> 0, off |-> 0]
NaT == [t |-> "nat", d |-> 0, off |-> 0]

NA == "<NA>"

\* the record of the first complete cycle: not kept, not yet taken, taken
NaoGrava == [t |-> "nao_grava", c |-> <<>>]
Vazio == [t |-> "vazio", c |-> <<>>]
Gravado(r) == [t |-> "ciclo", c |-> <<r>>]

REFRESH_INTERVAL == 60

IDLE_INTERVAL == 60

-----------------------------------------------------------------------------
(* Bounds *)

MaxHist == 2

Datas == 1..2

-----------------------------------------------------------------------------
(* Schedule gate, lines 30-37 *)

Inst(d, h, m) == [dia |-> d, hora |-> h, minuto |-> m]

TodosInstantes == {Inst(d, h, m) : d \in 0..6, h \in 0..23, m \in 0..59}

\* the gate with the weekend test off by one (Saturday treated as a weekday)
dentro_do_horario_sabado(a) ==
  LET hora60 == a.hora * 60 + a.minuto
      dia_semana == a.dia
  IN  IF dia_semana > 5
        THEN FALSE
        ELSE (480 <= hora60 /\ hora60 <= 750) \/ (810 <= hora60 /\ hora60 <= 1080)

\* `hora = agora.hour + agora.minute / 60` is compared with 8, 12.5, 13.5 and
\* 18; both sides are scaled by 60 here (minutes since midnight), which keeps
\* every comparison of the source exact.  Seconds do not enter `hora`.
dentro_do_horario(a) ==
  LET hora60 == a.hora * 60 + a.minuto
      dia_semana == a.dia
  IN  IF dia_semana >= 5
        THEN FALSE
        ELSE (480 <= hora60 /\ hora60 <= 750) \/ (810 <= hora60 /\ hora60 <= 1080)

-----------------------------------------------------------------------------
(* Normalisation, lines 64-77 and 102-123 *)

\* pd.to_numeric(errors="coerce").fillna(0)
ToNumeric(x) == IF x.t = "num" THEN x.v ELSE 0

tratar_decimais(df, colunas) ==
  [i \in DOMAIN df |->
     [c \in DOMAIN df[i] |-> IF c \in colunas THEN ToNumeric(df[i][c]) ELSE df[i][c]]]

\* pd.to_datetime(errors="coerce"), tz_convert(UTC), tz_localize(None)
ToDatetimeCoerce(x) == IF x.t = "ts" THEN Ts(x.d + x.off, 0) ELSE NaT

tratar_datas(df, colunas) ==
  [i \in DOMAIN df |->
     [c \in DOMAIN df[i] |-> IF c \in colunas THEN ToDatetimeCoerce(df[i][c]) ELSE df[i][c]]]

\* .dt.date of a normalised timestamp
DateOf(x) == IF x.t = "ts" THEN Some(x.d) ELSE None

\* lines 103-111
TratarPedidos(raw) ==
  LET d1 == tratar_datas(raw, {"Hora_de_Criacao"})
      d2 == tratar_decimais(d1, {"Quantidade_Total"})
  IN  [i \in DOMAIN d2 |->
         [Assunto |-> d2[i].Assunto,
          Status |-> d2[i].Status,
          Hora_de_Criacao |-> d2[i].Hora_de_Criacao,
          Condicao_de_Pagamento |-> d2[i].Condicao_de_Pagamento,
          Pedido_Filho |-> d2[i].Pedido_Filho,
          Qtd_Vendida |-> d2[i].Quantidade_Total,
          Produto |-> d2[i].Produtos,
          Data |-> DateOf(d2[i].Hora_de_Criacao)]]

\* line 121: pd.to_datetime without errors="coerce" raises on a value it
\* cannot parse; the exception is not caught and ends the script run
OrdensLevanta(raw) == \E i \in DOMAIN raw : raw[i].Hora_de_Criacao.t = "str"

\* lines 114-123; the column selection of line 114 never holds a
\* "Numero do Pedido" column, so line 123 always assigns index + 1
TratarOrdens(raw) ==
  LET d1 == tratar_decimais(raw, {"Quantidade_Paga"})
  IN  [i \in DOMAIN d1 |->
         [Produto |-> d1[i].Nome_Produto,
          Qtd_Comprada |-> d1[i].Quantidade_Paga,
          Armazem |-> d1[i].Armazem,
          Hora_de_Criacao |-> d1[i].Hora_de_Criacao,
          Pedido_de_Compra |-> d1[i].Pedido_de_Compra,
          Data |-> IF d1[i].Hora_de_Criacao.t = "ts"
                     THEN Some(d1[i].Hora_de_Criacao.d) ELSE None,
          Numero_do_Pedido |-> i]]

\* df[col].dropna().unique()
Unique(df, col) == {df[i][col] : i \in DOMAIN df} \ {NA}

-----------------------------------------------------------------------------
(* Quote client, lines 80-92 *)

\* a response of the "last quote" endpoint: k = "ok" (2xx, body with the
\* USDBRL key, bid as given), "semchave" (2xx, no USDBRL key), "http500"
\* (raise_for_status raises), "neterr" (requests raises)
CotResp(k, b) == [k |-> k, bid |-> b]

obter_cotacao(r) ==
  IF r.k = "ok" /\ r.bid.t = "num" THEN Some(r.bid.v) ELSE None

\* st.warning of line 88 or st.error of line 91 (float() of a bid that is
\* not a number raises inside the try of line 81)
AvisoCotacao(r) ==
  IF r.k = "ok" /\ r.bid.t = "num" THEN {}
  ELSE IF r.k = "semchave" THEN {"retorno_inesperado"}
  ELSE {"erro_cotacao"}

-----------------------------------------------------------------------------
(* History, lines 158-185 *)

\* a response of the daily-series endpoint: k = "neterr" (requests raises),
\* "http" (raise_for_status raises) or "json"; for "json", lista tells whether
\* the body is a list and els are its elements
HistResp(k, l, e) == [k |-> k, lista |-> l, els |-> e]

Ponto(ts, b) == [timestamp |-> ts, bid |-> b]

\* lines 158-159
HistLevanta(r) == r.k \in {"neterr", "http"}

\* line 163
HistVazia(r) == ~r.lista \/ Len(r.els) = 0

\* columns of pd.DataFrame(hist_data): the union of the elements' keys
Colunas(els) ==
  {c \in {"timestamp", "bid"} : \E i \in DOMAIN els : els[i][c].t # "abs"}

\* line 169
DadosInvalidos(els) == "timestamp" \notin Colunas(els) \/ "bid" \notin Colunas(els)

\* lines 174-175: to_datetime(unit='s') and astype(float) raise on a string
\* that is not a number; a missing value becomes NaT / NaN
ConverteLevanta(els) ==
  \E i \in DOMAIN els : els[i].timestamp.t = "str" \/ els[i].bid.t = "str"

Converter(els) ==
  [i \in DOMAIN els |->
     [timestamp |-> IF els[i].timestamp.t = "num" THEN Some(els[i].timestamp.v) ELSE None,
      bid |-> IF els[i].bid.t = "num" THEN Some(els[i].bid.v) ELSE None]]

\* line 176: ascending by timestamp, NaT last; sort_values uses quicksort,
\* which is not stable, so rows with equal keys may come out in any order
TsLeq(a, b) ==
  b.timestamp = None \/ (a.timestamp # None /\ a.timestamp[1] <= b.timestamp[1])

\* line 176 left out: the rows stay in the order the feed returned them
OrdenacoesSemOrdenar(rows) == {rows}

Ordenacoes(rows) ==
  LET n == Len(rows)
      perms == {p \in [1..n -> 1..n] : \A i, j \in 1..n : i # j => p[i] # p[j]}
      ok(p) == \A i, j \in 1..n : i < j => TsLeq(rows[p[i]], rows[p[j]])
  IN  {[i \in 1..n |-> rows[p[i]]] : p \in {q \in perms : ok(q)}}

\* line 178
ultimos_valores(df) == [i \in DOMAIN df |-> df[i].bid]

\* line 184 raises ZeroDivisionError when the previous close is 0.0
VariacaoLevanta(bids) ==
  LET ant == bids[Len(bids) - 1] IN ant # None /\ ant[1] = 0

\* lines 183-184, as an exact fraction num/den (percent); NaN when either of
\* the two bids is NaN
CalcVariacao(bids) ==
  LET ant == bids[Len(bids) - 1]
      ult == bids[Len(bids)]
  IN  IF ant = None \/ ult = None
        THEN [t |-> "nan", num |-> 0, den |-> 1]
        ELSE [t |-> "num", num |-> (ult[1] - ant[1]) * 100, den |-> ant[1]]

-----------------------------------------------------------------------------
(* Filters, lines 236-245 *)

\* the sales-order filter reading an empty selection as "no filter"
FiltrarPedidosVazioPassa(df, data, cond, filho, status) ==
  SelectSeq(df, LAMBDA r :
     /\ r.Data = Some(data)
     /\ (cond = {} \/ r.Condicao_de_Pagamento \in cond)
     /\ (filho = {} \/ r.Pedido_Filho \in filho)
     /\ (status = {} \/ r.Status \in status))

FiltrarPedidos(df, data, cond, filho, status) ==
  SelectSeq(df, LAMBDA r :
     /\ r.Data = Some(data)
     /\ r.Condicao_de_Pagamento \in cond
     /\ r.Pedido_Filho \in filho
     /\ r.Status \in status)

\* the purchase-order filter comparing with today's date instead of the
\* date the widget returned
FiltrarOrdensHoje(df, data, armazem) ==
  SelectSeq(df, LAMBDA r : r.Data = hoje /\ r.Armazem \in armazem)

FiltrarOrdens(df, data, armazem) ==
  SelectSeq(df, LAMBDA r : r.Data = Some(data) /\ r.Armazem \in armazem)

-----------------------------------------------------------------------------
(* Inputs: store contents, feed responses, clock samples, filter choices *)

\* documents of the two collections, with the columns lines 103 and 114 select
Pedido(a, st, h, c, f, q, p) ==
  [Assunto |-> a, Status |-> st, Hora_de_Criacao |-> h,
   Condicao_de_Pagamento |-> c, Pedido_Filho |-> f, Quantidade_Total |-> q,
   Produtos |-> p]

\* n: the document's own "Numero do Pedido" (Abs when the document has none)
Ordem(p, q, a, h, oc, n) ==
  [Nome_Produto |-> p, Quantidade_Paga |-> q, Armazem |-> a,
   Hora_de_Criacao |-> h, Pedido_de_Compra |-> oc, Numero_do_Pedido |-> n]

PED ==
  << Pedido("V1", "Aberto", Ts(1, 0), "avista", "Sim", Num(3), "P1"),
     Pedido("V2", "Fechado", Ts(2, 0), "prazo", "Nao", Str, "P2"),
     Pedido("V3", "Aberto", Ts(1, 1), "avista", "Nao", NaN, "P1"),
     Pedido("V4", "Aberto", Ts(1, 0), NA, "Sim", Num(-1), "P2"),
     Pedido("V5", "Fechado", TsStr, "prazo", NA, Num(0), "P1") >>

ORD ==
  << Ordem("P1", Num(2), "A1", Ts(1, 0), "OC1", Num(10)),
     Ordem("P2", Str, "A2", Ts(2, 0), "OC2", Num(20)),
     Ordem("P1", NaN, NA, TsNaN, "OC4", Abs) >>

ORD_RUIM == << Ordem("P1", Num(1), "A1", TsStr, "OC3", Abs) >>

Db(p, o, f) == [pedidos |-> p, ordens |-> o, fora |-> f]

\* fora: the store does not answer and both find() calls raise
DbStates ==
  {Db(p, o, FALSE) : p \in {<<>>, PED}, o \in {<<>>, ORD, ORD_RUIM}}
    \cup {Db(PED, ORD, TRUE)}

\* instants the main loop's clock is sampled at (day 2 is a Wednesday, day 5
\* a Saturday)
Instantes == {Inst(2, 9, 0), Inst(2, 13, 0), Inst(5, 9, 0)}

CotResps ==
  {CotResp("ok", Num(5)), CotResp("ok", Str), CotResp("semchave", Abs),
   CotResp("http500", Abs), CotResp("neterr", Abs)}

HistElems ==
  {Ponto(Num(1), Num(2)), Ponto(Num(2), Num(1)), Ponto(Num(3), Num(3)),
   Ponto(Num(4), Abs), Ponto(Num(1), Str)}

SeqsAte(S, n) == UNION {[1..k -> S] : k \in 0..n}

HistResps ==
  {HistResp("neterr", FALSE, <<>>), HistResp("http", FALSE, <<>>),
   HistResp("json", FALSE, <<>>)}
    \cup {HistResp("json", TRUE, e) : e \in SeqsAte(HistElems, MaxHist)}

FiltroSpec(d, c, f, s, a) ==
  [data |-> d, cond |-> c, filho |-> f, status |-> s, armazem |-> a]

\* selections a user makes in the sidebar
FiltroSpecs ==
  {FiltroSpec(1, {"avista"}, {"Sim"}, {"Aberto"}, {"A1"}),
   FiltroSpec(2, {"prazo"}, {"Nao"}, {}, {})}

-----------------------------------------------------------------------------
(* Record store reader, lines 48-62 *)

carregar_pedidos(d) == IF d.fora THEN <<>> ELSE d.pedidos

carregar_ordens(d) == IF d.fora THEN <<>> ELSE d.ordens

-----------------------------------------------------------------------------
(* The script *)

Init ==
  /\ pc = "inicio"
  /\ db \in DbStates
  /\ pedidos_raw = None /\ ordens_raw = None
  /\ df_pedidos = None /\ df_ordens = None
  /\ hoje = None
  /\ uiSpec = None /\ sessSpec = None /\ pendingRerun = FALSE
  /\ data_filtrada = None /\ condicao_selecionada = None
  /\ pedido_filho_selecionado = None /\ status_selecionado = None
  /\ armazem_selecionado = None
  /\ agora = None /\ aberto = None /\ cotacao = None
  /\ hist_data = None /\ df_hist = None /\ variacao = None
  /\ df_pedidos_filtrado = None /\ df_ordens_filtrado = None
  /\ emitido = {} /\ avisos = {}
  /\ dormiu = 0
  /\ specNoGate = None
  /\ primeiro_ciclo = NaoGrava

carga == <<pedidos_raw, ordens_raw, df_pedidos, df_ordens>>

selecao == <<hoje, data_filtrada, condicao_selecionada,
             pedido_filho_selecionado, status_selecionado, armazem_selecionado>>

ciclo == <<cotacao, hist_data, df_hist, variacao, df_pedidos_filtrado,
           df_ordens_filtrado>>

ambiente == <<db, uiSpec, sessSpec, pendingRerun, agora, primeiro_ciclo>>

\* the five values the cycle filters with
SpecAplicada ==
  FiltroSpec(data_filtrada[1], condicao_selecionada[1],
             pedido_filho_selecionado[1], status_selecionado[1],
             armazem_selecionado[1])

\* what a complete cycle was computed from and what it showed
Registro ==
  [pedidos_raw |-> pedidos_raw[1], ordens_raw |-> ordens_raw[1],
   df_pedidos |-> df_pedidos[1], df_ordens |-> df_ordens[1],
   hist_data |-> hist_data[1], spec |-> SpecAplicada,
   cotacao |-> cotacao[1], variacao |-> variacao[1], df_hist |-> df_hist[1],
   df_pedidos_filtrado |-> df_pedidos_filtrado[1],
   df_ordens_filtrado |-> df_ordens_filtrado[1]]

\* a new script run: every script variable is fresh, the widgets carry the
\* values last set in the browser; s is the time slept right before
Reiniciar(s) ==
  /\ pc' = "inicio"
  /\ pedidos_raw' = None /\ ordens_raw' = None
  /\ df_pedidos' = None /\ df_ordens' = None
  /\ hoje' = None
  /\ data_filtrada' = None /\ condicao_selecionada' = None
  /\ pedido_filho_selecionado' = None /\ status_selecionado' = None
  /\ armazem_selecionado' = None
  /\ aberto' = None /\ cotacao' = None
  /\ hist_data' = None /\ df_hist' = None /\ variacao' = None
  /\ df_pedidos_filtrado' = None /\ df_ordens_filtrado' = None
  /\ emitido' = {} /\ avisos' = {}
  /\ sessSpec' = uiSpec /\ pendingRerun' = FALSE
  /\ dormiu' = s
  /\ specNoGate' = None
  /\ primeiro_ciclo' =
       IF primeiro_ciclo = Vazio /\ pc = "tick" /\ "tabelas" \in emitido
         THEN Gravado(Registro)
         ELSE primeiro_ciclo
  /\ UNCHANGED <<db, uiSpec, agora>>

\* st.* calls that would not serve a pending rerun request
YieldSemRerun(normal) == normal

\* an st.* element call: the runner first serves a pending rerun request
Yield(normal) == IF pendingRerun THEN Reiniciar(0) ELSE normal

\* the warehouse widget returning its default instead of the session's value
WidgetValueArmazemPadrao(campo, default) ==
  IF sessSpec = None \/ campo = "armazem" THEN default ELSE sessSpec[1][campo]

\* value a sidebar widget returns in this script run
WidgetValue(campo, default) ==
  IF sessSpec = None THEN default ELSE sessSpec[1][campo]

\* lines 95-96
Carregar ==
  /\ pc = "inicio"
  /\ LET normal ==
           /\ pedidos_raw' = Some(carregar_pedidos(db))
           /\ ordens_raw' = Some(carregar_ordens(db))
           /\ avisos' = avisos \cup (IF db.fora THEN {"erro_carregar"} ELSE {})
           /\ pc' = "verificar"
           /\ dormiu' = 0
           /\ UNCHANGED <<df_pedidos, df_ordens, selecao, aberto, ciclo,
                          emitido, specNoGate, ambiente>>
     IN  IF db.fora THEN Yield(normal) ELSE normal

\* the check of line 98 with `and` in place of `or`
VerificarAmbosVazios ==
  /\ pc = "verificar"
  /\ IF pedidos_raw[1] = <<>> /\ ordens_raw[1] = <<>>
       THEN Yield(/\ avisos' = avisos \cup {"sem_dados"}
                  /\ pc' = "parado"
                  /\ dormiu' = 0
                  /\ UNCHANGED <<carga, selecao, aberto, ciclo, emitido,
                                 specNoGate, ambiente>>)
       ELSE /\ pc' = "tratar"
            /\ dormiu' = 0
            /\ UNCHANGED <<carga, selecao, aberto, ciclo, emitido, avisos,
                           specNoGate, ambiente>>

\* lines 98-100
Verificar ==
  /\ pc = "verificar"
  /\ IF pedidos_raw[1] = <<>> \/ ordens_raw[1] = <<>>
       THEN Yield(/\ avisos' = avisos \cup {"sem_dados"}
                  /\ pc' = "parado"
                  /\ dormiu' = 0
                  /\ UNCHANGED <<carga, selecao, aberto, ciclo, emitido,
                                 specNoGate, ambiente>>)
       ELSE /\ pc' = "tratar"
            /\ dormiu' = 0
            /\ UNCHANGED <<carga, selecao, aberto, ciclo, emitido, avisos,
                           specNoGate, ambiente>>

\* lines 102-123
Tratar ==
  /\ pc = "tratar"
  /\ IF OrdensLevanta(ordens_raw[1])
       THEN /\ pc' = "falhou"
            /\ df_pedidos' = Some(TratarPedidos(pedidos_raw[1]))
            /\ UNCHANGED df_ordens
       ELSE /\ pc' = "sb_data"
            /\ df_pedidos' = Some(TratarPedidos(pedidos_raw[1]))
            /\ df_ordens' = Some(TratarOrdens(ordens_raw[1]))
  /\ dormiu' = 0
  /\ UNCHANGED <<pedidos_raw, ordens_raw, selecao, aberto, ciclo, emitido,
                 avisos, specNoGate, ambiente>>

\* lines 126-128
SidebarData ==
  /\ pc = "sb_data"
  /\ \E h \in Datas :
       Yield(/\ hoje' = Some(h)
             /\ data_filtrada' = Some(WidgetValue("data", h))
             /\ pc' = "sb_cond"
             /\ dormiu' = 0
             /\ UNCHANGED <<carga, condicao_selecionada,
                            pedido_filho_selecionado, status_selecionado,
                            armazem_selecionado, aberto, ciclo, emitido,
                            avisos, specNoGate, ambiente>>)

\* lines 130-131
SidebarCondicao ==
  /\ pc = "sb_cond"
  /\ Yield(/\ condicao_selecionada' =
                Some(WidgetValue("cond", Unique(df_pedidos[1], "Condicao_de_Pagamento")))
           /\ pc' = "sb_filho"
           /\ dormiu' = 0
           /\ UNCHANGED <<carga, hoje, data_filtrada,
                          pedido_filho_selecionado, status_selecionado,
                          armazem_selecionado, aberto, ciclo, emitido,
                          avisos, specNoGate, ambiente>>)

\* lines 133-134
SidebarPedidoFilho ==
  /\ pc = "sb_filho"
  /\ Yield(/\ pedido_filho_selecionado' =
                Some(WidgetValue("filho", Unique(df_pedidos[1], "Pedido_Filho")))
           /\ pc' = "sb_status"
           /\ dormiu' = 0
           /\ UNCHANGED <<carga, hoje, data_filtrada, condicao_selecionada,
                          status_selecionado, armazem_selecionado, aberto,
                          ciclo, emitido, avisos, specNoGate, ambiente>>)

\* lines 136-137
SidebarStatus ==
  /\ pc = "sb_status"
  /\ Yield(/\ status_selecionado' =
                Some(WidgetValue("status", Unique(df_pedidos[1], "Status")))
           /\ pc' = "sb_armazem"
           /\ dormiu' = 0
           /\ UNCHANGED <<carga, hoje, data_filtrada, condicao_selecionada,
                          pedido_filho_selecionado, armazem_selecionado,
                          aberto, ciclo, emitido, avisos, specNoGate,
                          ambiente>>)

\* lines 139-146 (the placeholders of lines 143-146 are created here too)
SidebarArmazem ==
  /\ pc = "sb_armazem"
  /\ Yield(/\ armazem_selecionado' =
                Some(WidgetValue("armazem", Unique(df_ordens[1], "Armazem")))
           /\ pc' = "gate"
           /\ dormiu' = 0
           /\ UNCHANGED <<carga, hoje, data_filtrada, condicao_selecionada,
                          pedido_filho_selecionado, status_selecionado,
                          aberto, ciclo, emitido, avisos, specNoGate,
                          ambiente>>)

-----------------------------------------------------------------------------
(* The main loop, lines 149-267 *)

\* the loop body without the test of line 150
GateSemVerificar ==
  /\ pc = "gate"
  /\ \E a \in Instantes :
       /\ aberto' = Some(dentro_do_horario(a))
       /\ pc' = "cotacao"
  /\ specNoGate' = Some(uiSpec)
  /\ dormiu' = 0
  /\ UNCHANGED <<carga, selecao, ciclo, emitido, avisos, ambiente>>

\* line 150
Gate ==
  /\ pc = "gate"
  /\ \E a \in Instantes :
       /\ aberto' = Some(dentro_do_horario(a))
       /\ pc' = IF dentro_do_horario(a) THEN "cotacao" ELSE "fora"
  /\ specNoGate' = Some(uiSpec)
  /\ dormiu' = 0
  /\ UNCHANGED <<carga, selecao, ciclo, emitido, avisos, ambiente>>

\* lines 261-264: warning, sleep(60), continue
Fora ==
  /\ pc = "fora"
  /\ Yield(/\ avisos' = avisos \cup {"fora_do_horario"}
           /\ dormiu' = IDLE_INTERVAL
           /\ pc' = "gate"
           /\ UNCHANGED <<carga, selecao, aberto, ciclo, emitido,
                          specNoGate, ambiente>>)

\* obter_cotacao without its try/except: a failed fetch raises into the
\* cycle's handler of line 258
CotacaoPropaga ==
  /\ pc = "cotacao"
  /\ \E r \in CotResps :
       IF AvisoCotacao(r) # {}
         THEN Yield(/\ avisos' = avisos \cup {"erro_dados"}
                    /\ pc' = "tick"
                    /\ dormiu' = 0
                    /\ UNCHANGED <<carga, selecao, aberto, ciclo, emitido,
                                   specNoGate, ambiente>>)
         ELSE /\ cotacao' = Some(obter_cotacao(r))
              /\ pc' = "historico"
              /\ dormiu' = 0
              /\ UNCHANGED <<carga, selecao, aberto, hist_data, df_hist,
                             variacao, df_pedidos_filtrado,
                             df_ordens_filtrado, emitido, avisos, specNoGate,
                             ambiente>>

\* line 153 (obter_cotacao, lines 80-92)
Cotacao ==
  /\ pc = "cotacao"
  /\ \E r \in CotResps :
       LET normal ==
             /\ cotacao' = Some(obter_cotacao(r))
             /\ avisos' = avisos \cup AvisoCotacao(r)
             /\ pc' = "historico"
             /\ dormiu' = 0
             /\ UNCHANGED <<carga, selecao, aberto, hist_data, df_hist,
                            variacao, df_pedidos_filtrado,
                            df_ordens_filtrado, emitido, specNoGate,
                            ambiente>>
       IN  IF AvisoCotacao(r) # {} THEN Yield(normal) ELSE normal

\* the cycle without the handler of line 258: the exception ends the script
ExcecaoNaoCapturada(h) ==
  /\ pc' = "falhou"
  /\ hist_data' = h
  /\ dormiu' = 0
  /\ UNCHANGED <<carga, selecao, aberto, cotacao, df_hist, variacao,
                 df_pedidos_filtrado, df_ordens_filtrado, emitido, avisos,
                 specNoGate, ambiente>>

\* lines 258-259: the handler of the cycle's try block; h is the value
\* hist_data holds when the exception is raised
Excecao(h) ==
  Yield(/\ hist_data' = h
        /\ avisos' = avisos \cup {"erro_dados"}
        /\ pc' = "tick"
        /\ dormiu' = 0
        /\ UNCHANGED <<carga, selecao, aberto, cotacao, df_hist, variacao,
                       df_pedidos_filtrado, df_ordens_filtrado, emitido,
                       specNoGate, ambiente>>)

\* lines 158-176: fetch, shape checks, conversion, sort
Historico ==
  /\ pc = "historico"
  /\ \E r \in HistResps :
          IF HistLevanta(r)
            THEN Excecao(hist_data)
          ELSE IF HistVazia(r)
            THEN Yield(/\ hist_data' = Some(r)
                       /\ avisos' = avisos \cup {"erro_historico"}
                       /\ pc' = "invalido"
                       /\ dormiu' = 0
                       /\ UNCHANGED <<carga, selecao, aberto, cotacao,
                                      df_hist, variacao, df_pedidos_filtrado,
                                      df_ordens_filtrado, emitido,
                                      specNoGate, ambiente>>)
          ELSE IF DadosInvalidos(r.els)
            THEN Yield(/\ hist_data' = Some(r)
                       /\ avisos' = avisos \cup {"dados_invalidos"}
                       /\ pc' = "invalido"
                       /\ dormiu' = 0
                       /\ UNCHANGED <<carga, selecao, aberto, cotacao,
                                      df_hist, variacao, df_pedidos_filtrado,
                                      df_ordens_filtrado, emitido,
                                      specNoGate, ambiente>>)
          ELSE IF ConverteLevanta(r.els)
            THEN Excecao(Some(r))
          ELSE /\ hist_data' = Some(r)
               /\ df_hist' \in {Some(o) : o \in Ordenacoes(Converter(r.els))}
               /\ pc' = "variacao"
               /\ dormiu' = 0
               /\ UNCHANGED <<carga, selecao, aberto, cotacao, variacao,
                              df_pedidos_filtrado, df_ordens_filtrado,
                              emitido, avisos, specNoGate, ambiente>>

\* the invalid-history branch rerunning without the sleep
InvalidoSemDormir ==
  /\ pc = "invalido"
  /\ Reiniciar(0)

\* lines 165-166 and 171-172: sleep, st.rerun()
InvalidoTick ==
  /\ pc = "invalido"
  /\ Reiniciar(REFRESH_INTERVAL)

\* the variation step without the length test of line 179: line 183 raises
\* IndexError on a one-element list, which the handler of line 258 reports
VariacaoSemVerificar ==
  /\ pc = "variacao"
  /\ IF Len(ultimos_valores(df_hist[1])) < 2
          \/ VariacaoLevanta(ultimos_valores(df_hist[1]))
       THEN Excecao(hist_data)
     ELSE /\ variacao' = Some(CalcVariacao(ultimos_valores(df_hist[1])))
          /\ pc' = "grafico"
          /\ dormiu' = 0
          /\ UNCHANGED <<carga, selecao, aberto, cotacao, hist_data, df_hist,
                         df_pedidos_filtrado, df_ordens_filtrado, emitido,
                         avisos, specNoGate, ambiente>>

\* lines 178-185
Variacao ==
  /\ pc = "variacao"
  /\ IF Len(ultimos_valores(df_hist[1])) < 2
       THEN Yield(/\ avisos' = avisos \cup {"dados_insuficientes"}
                  /\ pc' = "gate"
                  /\ dormiu' = 0
                  /\ UNCHANGED <<carga, selecao, aberto, ciclo, emitido,
                                 specNoGate, ambiente>>)
     ELSE IF VariacaoLevanta(ultimos_valores(df_hist[1]))
       THEN Excecao(hist_data)
     ELSE /\ variacao' = Some(CalcVariacao(ultimos_valores(df_hist[1])))
          /\ pc' = "grafico"
          /\ dormiu' = 0
          /\ UNCHANGED <<carga, selecao, aberto, cotacao, hist_data, df_hist,
                         df_pedidos_filtrado, df_ordens_filtrado, emitido,
                         avisos, specNoGate, ambiente>>

\* lines 188-233: chart and cards
Grafico ==
  /\ pc = "grafico"
  /\ Yield(/\ emitido' = emitido \cup {"grafico", "cards"}
           /\ pc' = "filtros"
           /\ dormiu' = 0
           /\ UNCHANGED <<carga, selecao, aberto, ciclo, avisos, specNoGate,
                          ambiente>>)

\* lines 236-245
Filtros ==
  /\ pc = "filtros"
  /\ df_pedidos_filtrado' =
       Some(FiltrarPedidos(df_pedidos[1], data_filtrada[1],
                           condicao_selecionada[1],
                           pedido_filho_selecionado[1],
                           status_selecionado[1]))
  /\ df_ordens_filtrado' =
       Some(FiltrarOrdens(df_ordens[1], data_filtrada[1],
                          armazem_selecionado[1]))
  /\ pc' = "tabelas"
  /\ dormiu' = 0
  /\ UNCHANGED <<carga, selecao, aberto, cotacao, hist_data, df_hist,
                 variacao, emitido, avisos, specNoGate, ambiente>>

\* lines 247-256: both tables and the status line
Tabelas ==
  /\ pc = "tabelas"
  /\ Yield(/\ emitido' = emitido \cup {"tabelas", "status"}
           /\ avisos' = avisos \cup {"atualizado"}
           /\ pc' = "tick"
           /\ dormiu' = 0
           /\ UNCHANGED <<carga, selecao, aberto, ciclo, specNoGate,
                          ambiente>>)

\* lines 266-267: sleep, st.rerun()
Tick ==
  /\ pc = "tick"
  /\ Reiniciar(REFRESH_INTERVAL)

-----------------------------------------------------------------------------
(* Environment *)

\* the collections change, or the store stops or resumes answering; the
\* script reads the store only in Carregar, so a change made at any moment is
\* taken at the point where the next script run is about to read it
StoreChange ==
  /\ pc = "inicio"
  /\ db' \in DbStates \ {db}
  /\ UNCHANGED <<pc, carga, selecao, aberto, ciclo, emitido, avisos, dormiu,
                 specNoGate, uiSpec, sessSpec, pendingRerun, agora,
                 primeiro_ciclo>>

\* the user changes the sidebar while a script run shows it
UserChange ==
  /\ pc \notin {"parado", "falhou"}
  /\ \E f \in FiltroSpecs :
       /\ Some(f) # uiSpec
       /\ uiSpec' = Some(f)
  /\ pendingRerun' = TRUE
  /\ UNCHANGED <<pc, carga, selecao, aberto, ciclo, emitido, avisos, dormiu,
                 specNoGate, db, sessSpec, agora, primeiro_ciclo>>

Programa ==
  \/ Carregar \/ Verificar \/ Tratar
  \/ SidebarData \/ SidebarCondicao \/ SidebarPedidoFilho \/ SidebarStatus
  \/ SidebarArmazem
  \/ Gate \/ Fora \/ Cotacao \/ Historico \/ InvalidoTick \/ Variacao
  \/ Grafico \/ Filtros \/ Tabelas \/ Tick

Next == Programa \/ StoreChange \/ UserChange

Spec == Init /\ [][Next]_vars

-----------------------------------------------------------------------------
(* The loop with a store that keeps answering as it did at startup and a     *)
(* user who changes the sidebar at most once; the script's steps are taken   *)
(* whenever one is possible (sleeps and requests with timeout=5 return)      *)

PrimeiraMudanca == uiSpec = None /\ UserChange

LiveNext == Programa \/ PrimeiraMudanca

LiveSpec == Init /\ [][LiveNext]_vars /\ WF_vars(Programa)

-----------------------------------------------------------------------------
(* The schedule gate applied to every minute of the week *)

GateInit ==
  /\ pc = "gate_fn"
  /\ db = Db(PED, ORD, FALSE)
  /\ pedidos_raw = None /\ ordens_raw = None
  /\ df_pedidos = None /\ df_ordens = None
  /\ hoje = None
  /\ uiSpec = None /\ sessSpec = None /\ pendingRerun = FALSE
  /\ data_filtrada = None /\ condicao_selecionada = None
  /\ pedido_filho_selecionado = None /\ status_selecionado = None
  /\ armazem_selecionado = None
  /\ agora \in {Some(a) : a \in TodosInstantes}
  /\ aberto = None /\ cotacao = None
  /\ hist_data = None /\ df_hist = None /\ variacao = None
  /\ df_pedidos_filtrado = None /\ df_ordens_filtrado = None
  /\ emitido = {} /\ avisos = {}
  /\ dormiu = 0
  /\ specNoGate = None
  /\ primeiro_ciclo = NaoGrava

ChamarDentroDoHorario ==
  /\ pc = "gate_fn"
  /\ aberto' = Some(dentro_do_horario(agora[1]))
  /\ pc' = "gate_fim"
  /\ UNCHANGED <<carga, selecao, ciclo, emitido, avisos, dormiu, specNoGate,
                 ambiente>>

GateNext == ChamarDentroDoHorario

GateSpec == GateInit /\ [][GateNext]_vars

-----------------------------------------------------------------------------
(* Cycle after cycle: the first complete cycle is recorded and the feeds     *)
(* keep answering what they answered then; the session starts with the      *)
(* widgets untouched or already set by the user, and a purchase order may   *)
(* be inserted in the store                                                 *)

CiclosInit ==
  /\ pc = "inicio"
  /\ db = Db(PED, ORD, FALSE)
  /\ pedidos_raw = None /\ ordens_raw = None
  /\ df_pedidos = None /\ df_ordens = None
  /\ hoje = None
  /\ uiSpec \in {None} \cup {Some(f) : f \in FiltroSpecs}
  /\ sessSpec = uiSpec /\ pendingRerun = FALSE
  /\ data_filtrada = None /\ condicao_selecionada = None
  /\ pedido_filho_selecionado = None /\ status_selecionado = None
  /\ armazem_selecionado = None
  /\ agora = None /\ aberto = None /\ cotacao = None
  /\ hist_data = None /\ df_hist = None /\ variacao = None
  /\ df_pedidos_filtrado = None /\ df_ordens_filtrado = None
  /\ emitido = {} /\ avisos = {}
  /\ dormiu = 0
  /\ specNoGate = None
  /\ primeiro_ciclo = Vazio

\* a purchase order is inserted in the collection; like StoreChange, taken
\* at the point where the next script run is about to read the store
NovaOrdem ==
  /\ pc = "inicio"
  /\ db.ordens = ORD
  /\ db' = Db(db.pedidos,
              Append(ORD, Ordem("P2", Num(4), "A1", Ts(1, 0), "OC5", Abs)),
              db.fora)
  /\ UNCHANGED <<pc, carga, selecao, aberto, ciclo, emitido, avisos, dormiu,
                 specNoGate, uiSpec, sessSpec, pendingRerun, agora,
                 primeiro_ciclo>>

FeedEstavel ==
  primeiro_ciclo.t = "ciclo" =>
    /\ hist_data # None => hist_data = Some(primeiro_ciclo.c[1].hist_data)
    /\ cotacao # None => cotacao = Some(primeiro_ciclo.c[1].cotacao)

ProgramaFeedEstavel == Programa /\ FeedEstavel'

CiclosNext == ProgramaFeedEstavel \/ NovaOrdem

CiclosSpec == CiclosInit /\ [][CiclosNext]_vars

-----------------------------------------------------------------------------
(* The filters of lines 236-245 applied to every selection the sidebar's   *)
(* widgets can return for the loaded record sets                           *)

FiltrosInit ==
  /\ pc = "filtros"
  /\ db = Db(PED, ORD, FALSE)
  /\ pedidos_raw \in {Some(PED), Some(SubSeq(PED, 1, 2))}
  /\ ordens_raw = Some(ORD)
  /\ df_pedidos = Some(TratarPedidos(pedidos_raw[1]))
  /\ df_ordens = Some(TratarOrdens(ordens_raw[1]))
  /\ hoje = Some(1)
  /\ uiSpec = None /\ sessSpec = None /\ pendingRerun = FALSE
  /\ data_filtrada \in {Some(d) : d \in Datas}
  /\ condicao_selecionada \in
       {Some(c) : c \in SUBSET Unique(TratarPedidos(PED), "Condicao_de_Pagamento")}
  /\ pedido_filho_selecionado \in
       {Some(c) : c \in SUBSET Unique(TratarPedidos(PED), "Pedido_Filho")}
  /\ status_selecionado \in
       {Some(c) : c \in SUBSET Unique(TratarPedidos(PED), "Status")}
  /\ armazem_selecionado \in
       {Some(c) : c \in SUBSET Unique(TratarOrdens(ORD), "Armazem")}
  /\ agora = None /\ aberto = Some(TRUE) /\ cotacao = Some(None)
  /\ hist_data = None /\ df_hist = None /\ variacao = None
  /\ df_pedidos_filtrado = None /\ df_ordens_filtrado = None
  /\ emitido = {} /\ avisos = {}
  /\ dormiu = 0
  /\ specNoGate = None
  /\ primeiro_ciclo = NaoGrava

FiltrosNext == Filtros

SpecFiltros == FiltrosInit /\ [][FiltrosNext]_vars

-----------------------------------------------------------------------------
(* Properties *)

LoopPcs ==
  {"gate", "fora", "cotacao", "historico", "invalido", "variacao", "grafico",
   "filtros", "tabelas", "tick"}

\* positions inside a Refreshing cycle (the gate returned open)
CicloPcs == LoopPcs \ {"gate", "fora"}

\* C1: once the script is in the main loop, whatever the feeds answer (quote
\* error, history error or non-2xx, malformed history, fewer than 2 points),
\* the loop comes back to the gate test of line 150 and evaluates it again.
C1_LoopContinua ==
  /\ (pc \in LoopPcs) ~> (pc = "gate")
  /\ (pc = "gate") ~> (pc \in {"cotacao", "fora"})

\* back at the gate after a quote fault and a history of fewer than 2 points
C1_Witness ==
  /\ pc = "gate"
  /\ "dados_insuficientes" \in avisos
  /\ cotacao = Some(None)

\* C2: every Refreshing cycle, whatever its outcome, ends with a sleep of
\* REFRESH_INTERVAL before the next cycle starts (no rerun request pending).
C2_CicloSempreDorme ==
  [][(pc \in CicloPcs /\ pc' \notin CicloPcs /\ ~pendingRerun)
       => dormiu' = REFRESH_INTERVAL]_vars

\* C3: a fetch position is only reached after the gate returned open; after
\* the gate returned closed the script is in the gated branch, where it
\* fetches and emits nothing and goes back to the gate through a sleep of
\* IDLE_INTERVAL.
C3_Gated ==
  [][/\ pc' \in CicloPcs => aberto' = Some(TRUE)
     /\ aberto' = Some(FALSE) => pc' \in {"fora", "gate"}
     /\ (pc = "fora" /\ pc' # "inicio")
          => UNCHANGED <<cotacao, hist_data, df_hist, emitido>>
     /\ (pc = "fora" /\ pc' \notin {"fora", "inicio"})
          => (pc' = "gate" /\ dormiu' = IDLE_INTERVAL)]_vars

\* gated, slept the idle interval, about to evaluate the gate again
C3_Witness ==
  pc = "gate" /\ aberto = Some(FALSE) /\ dormiu = IDLE_INTERVAL

\* the schedule as the specification states it: Monday-Friday, [08:00,12:30)
\* and [13:30,18:00)
EspecAberto(a) ==
  LET m == a.hora * 60 + a.minuto
  IN  a.dia <= 4 /\ ((480 <= m /\ m < 750) \/ (810 <= m /\ m < 1080))

\* C4: dentro_do_horario is true exactly on Monday-Friday instants inside the
\* half-open windows [08:00,12:30) and [13:30,18:00).
C4_JanelasSemiAbertas ==
  pc = "gate_fim" => (aberto = Some(EspecAberto(agora[1])))

\* C5: dentro_do_horario is false on every Saturday and Sunday instant, false
\* on a weekday strictly inside the lunch break (12:31 .. 13:29), and true at
\* 09:00 and 14:00 on a Wednesday.
C5_FimDeSemanaEAlmoco ==
  pc = "gate_fim" =>
    LET a == agora[1]
        m == a.hora * 60 + a.minuto
    IN  /\ a.dia \in {5, 6} => aberto = Some(FALSE)
        /\ (a.dia \in 0..4 /\ 750 < m /\ m < 810) => aberto = Some(FALSE)
        /\ a \in {Inst(2, 9, 0), Inst(2, 14, 0)} => aberto = Some(TRUE)

\* the gate answered for Wednesday 12:31
C5_Witness ==
  pc = "gate_fim" /\ agora = Some(Inst(2, 12, 31)) /\ aberto = Some(FALSE)

\* C6: when either collection loads empty, the check of line 98 stops the
\* script with the warning; a stopped script has evaluated no gate, fetched
\* nothing and emitted nothing, and stays stopped.
C6_SemDadosNaoInicia ==
  [][/\ (/\ pc = "verificar" /\ pc' # pc /\ ~pendingRerun
         /\ (pedidos_raw[1] = <<>> \/ ordens_raw[1] = <<>>))
          => (pc' = "parado" /\ "sem_dados" \in avisos')
     /\ pc' = "parado"
          => /\ aberto' = None /\ cotacao' = None /\ hist_data' = None
             /\ emitido' = {}
     /\ pc = "parado" => pc' = "parado"]_vars

\* stopped with 5 sales orders and 0 purchase orders loaded
C6_Witness ==
  /\ pc = "parado"
  /\ pedidos_raw # None /\ Len(pedidos_raw[1]) = 5
  /\ ordens_raw = Some(<<>>)

\* a history response with at least 2 points, each a timestamp and a
\* positive bid
HistBoa(h) ==
  /\ h # None
  /\ h[1].k = "json" /\ h[1].lista /\ Len(h[1].els) >= 2
  /\ \A i \in DOMAIN h[1].els :
       /\ h[1].els[i].timestamp.t = "num"
       /\ h[1].els[i].bid.t = "num" /\ h[1].els[i].bid.v > 0

\* C7: a failed quote fetch (network error, HTTP 500, no USDBRL key) gives
\* an absent price and a reported fault, the cycle goes on to the history
\* fetch, and with a history of at least 2 points it ends having emitted the
\* chart, the variation and both filtered tables.
C7_CotacaoAusenteCicloEmite ==
  [][/\ \A r \in CotResps :
          r.k # "ok" => (obter_cotacao(r) = None /\ AvisoCotacao(r) # {})
     /\ (pc = "cotacao" /\ pc' # pc /\ ~pendingRerun)
          => /\ pc' = "historico"
             /\ cotacao' # None
             /\ cotacao' = Some(None)
                  => avisos' \cap {"erro_cotacao", "retorno_inesperado"} # {}
     /\ (cotacao' = Some(None) /\ HistBoa(hist_data'))
          => /\ pc' \in {"variacao", "grafico", "filtros", "tabelas", "tick"}
             /\ pc' = "tick"
                  => /\ {"grafico", "cards", "tabelas", "status"} \subseteq emitido'
                     /\ df_hist' # None
                     /\ Len(df_hist'[1]) = Len(hist_data'[1].els)
                     /\ variacao' # None /\ variacao'[1].t = "num"
                     /\ df_pedidos_filtrado' # None
                     /\ df_ordens_filtrado' # None]_vars

\* a cycle that lost the quote and still emitted the tables
C7_Witness ==
  /\ pc = "tick"
  /\ cotacao = Some(None)
  /\ HistBoa(hist_data)
  /\ "tabelas" \in emitido

\* a history body that is not a list, is an empty list, or whose elements
\* carry no timestamp or no bid
RespInvalida(h) ==
  /\ h # None
  /\ h[1].k = "json"
  /\ \/ ~h[1].lista
     \/ h[1].els = <<>>
     \/ \A i \in DOMAIN h[1].els : h[1].els[i].timestamp.t = "abs"
     \/ \A i \in DOMAIN h[1].els : h[1].els[i].bid.t = "abs"

\* C8: an empty or invalid history is reported, the cycle computes no
\* variation and no filtered view and emits nothing, and the only step that
\* follows is the sleep of REFRESH_INTERVAL and the rerun.
C8_HistoricoInvalido ==
  [][/\ (pc = "historico" /\ pc' # pc /\ ~pendingRerun /\ RespInvalida(hist_data'))
          => /\ pc' = "invalido"
             /\ avisos' \cap {"erro_historico", "dados_invalidos"} # {}
             /\ variacao' = None
             /\ df_pedidos_filtrado' = None /\ df_ordens_filtrado' = None
             /\ emitido' = {}
     /\ (pc = "invalido" /\ pc' # pc)
          => (pc' = "inicio" /\ dormiu' = REFRESH_INTERVAL)]_vars

\* a list whose elements lack the fields was rejected
C8_Witness ==
  /\ pc = "invalido"
  /\ hist_data[1].lista /\ Len(hist_data[1].els) > 0
  /\ "dados_invalidos" \in avisos

\* the widgets' defaults of lines 127-140
SpecPadrao ==
  FiltroSpec(hoje[1],
             Unique(df_pedidos[1], "Condicao_de_Pagamento"),
             Unique(df_pedidos[1], "Pedido_Filho"),
             Unique(df_pedidos[1], "Status"),
             Unique(df_ordens[1], "Armazem"))

\* what a state of the browser's widgets means as a specification
Resolver(u) == IF u = None THEN SpecPadrao ELSE u[1]

FiltradoCom(f) ==
  /\ df_pedidos_filtrado =
       Some(FiltrarPedidos(df_pedidos[1], f.data, f.cond, f.filho, f.status))
  /\ df_ordens_filtrado = Some(FiltrarOrdens(df_ordens[1], f.data, f.armazem))

\* C9: the filtered views of a cycle are computed with the specification the
\* browser held when that cycle started (its gate evaluation), also when the
\* user changed it while the script was gated or looping on a short history.
C9_SpecAtual ==
  pc = "tabelas" =>
    /\ SpecAplicada = Resolver(specNoGate[1])
    /\ FiltradoCom(Resolver(specNoGate[1]))

\* a cycle filtering with a specification the user chose
C9_Witness ==
  /\ pc = "tabelas"
  /\ specNoGate[1] # None
  /\ SpecAplicada = specNoGate[1][1]

Versoes == {None} \cup {Some(f) : f \in FiltroSpecs}

\* C10: the five filter values of a script run all come from one version of
\* the specification, and the filtered views are computed with that version.
C10_LeituraAtomica ==
  pc \in LoopPcs =>
    \E u \in Versoes :
      /\ SpecAplicada = Resolver(u)
      /\ df_pedidos_filtrado # None => FiltradoCom(Resolver(u))

\* the user changed the sidebar while the cycle was between its reads and
\* its tables
C10_Witness ==
  /\ pc = "tabelas"
  /\ sessSpec # None
  /\ uiSpec # sessSpec
  /\ SpecAplicada = sessSpec[1]

DoDia(df, d) == SelectSeq(df, LAMBDA r : r.Data = Some(d))

\* C12: with every categorical selection equal to the widget's default (all
\* the distinct values of the loaded records), no record is excluded by a
\* categorical dimension: each filtered view holds every record dated on the
\* selected date.
C12_TodosSelecionados ==
  (pc = "tabelas" /\ SpecAplicada = [SpecPadrao EXCEPT !.data = data_filtrada[1]])
    => /\ df_pedidos_filtrado = Some(DoDia(df_pedidos[1], data_filtrada[1]))
       /\ df_ordens_filtrado = Some(DoDia(df_ordens[1], data_filtrada[1]))

\* the feed's elements, as rows, have pairwise distinct timestamps
TsDistintos(els) ==
  \A i, j \in DOMAIN els : i # j => els[i].timestamp # els[j].timestamp

\* the responses that carry the same points as h in another order
MesmosPontos(h) ==
  {r \in HistResps :
     /\ r.k = "json" /\ r.lista /\ Len(r.els) = Len(h.els)
     /\ \A e \in HistElems :
          Cardinality({i \in DOMAIN r.els : r.els[i] = e})
            = Cardinality({i \in DOMAIN h.els : h.els[i] = e})}

\* C13: for a history of at least 2 points (timestamps and positive bids),
\* in whatever order the feed listed them: the rows are the feed's points in
\* ascending timestamp order, the variation is (last - previous) * 100 over
\* the previous bid, taken from the two rows with the greatest timestamps, its
\* sign is the sign of last - previous, and every other listing of the same
\* points (distinct timestamps) gives the same variation.
C13_VariacaoDosDoisUltimos ==
  (pc = "grafico" /\ HistBoa(hist_data)) =>
    LET els == hist_data[1].els
        df == df_hist[1]
        n == Len(df)
        ult == df[n].bid[1]
        ant == df[n - 1].bid[1]
        v == variacao[1]
    IN  /\ n = Len(els)
        /\ \A e \in HistElems :
             Cardinality({i \in 1..n : df[i] = Converter(<<e>>)[1]})
               = Cardinality({i \in 1..n : els[i] = e})
        /\ \A i, j \in 1..n : i < j => df[i].timestamp[1] <= df[j].timestamp[1]
        /\ v = [t |-> "num", num |-> (ult - ant) * 100, den |-> ant]
        /\ (v.num * v.den > 0) <=> (ult > ant)
        /\ (v.num * v.den < 0) <=> (ult < ant)
        /\ TsDistintos(els) =>
             \A r \in MesmosPontos(hist_data[1]) :
               \A o \in Ordenacoes(Converter(r.els)) :
                 CalcVariacao(ultimos_valores(o)) = v

\* the feed listed the later point first; the variation is +50%
C13_Witness ==
  /\ pc = "grafico"
  /\ hist_data[1].els = <<Ponto(Num(3), Num(3)), Ponto(Num(1), Num(2))>>
  /\ variacao = Some([t |-> "num", num |-> 100, den |-> 2])

\* C14: with fewer than 2 points no variation is computed and nothing is
\* raised: a one-point history gets the "insufficient data" warning and the
\* loop goes back to the gate; an empty list is rejected by line 163 before
\* any conversion; in both cases the cycle's handler (line 258) is not
\* entered.
C14_MenosDeDoisPontos ==
  [][/\ (pc = "variacao" /\ pc' # pc /\ Len(df_hist[1]) < 2 /\ ~pendingRerun)
          => /\ pc' = "gate"
             /\ variacao' = None
             /\ "dados_insuficientes" \in avisos'
             /\ "erro_dados" \notin avisos'
     /\ (/\ pc = "historico" /\ pc' # pc /\ ~pendingRerun
         /\ hist_data' = Some(HistResp("json", TRUE, <<>>)))
          => /\ pc' = "invalido"
             /\ variacao' = None /\ df_hist' = df_hist
             /\ "erro_dados" \notin avisos']_vars

\* a one-point history left the variation undefined
C14_Witness ==
  /\ pc = "gate"
  /\ df_hist # None /\ Len(df_hist[1]) = 1
  /\ variacao = None
  /\ "dados_insuficientes" \in avisos
  /\ "erro_dados" \notin avisos

\* a complete cycle that follows the recorded one
CicloSeguinte ==
  pc = "tick" /\ "tabelas" \in emitido /\ primeiro_ciclo.t = "ciclo"

\* the cycle was computed from what the recorded cycle was computed from:
\* the same documents, the same feed answers, the same filter specification
MesmasEntradas(p) ==
  /\ p.pedidos_raw = pedidos_raw[1] /\ p.ordens_raw = ordens_raw[1]
  /\ p.hist_data = hist_data[1]
  /\ p.cotacao = cotacao[1]
  /\ p.spec = SpecAplicada

\* C15: a complete cycle computed from the same feed answers, the same store
\* content and the same filter specification as the first complete cycle
\* shows the same price, variation, series and filtered views.
C15_CiclosIguais ==
  CicloSeguinte =>
    LET p == primeiro_ciclo.c[1]
    IN  MesmasEntradas(p) =>
          /\ p.cotacao = cotacao[1]
          /\ p.variacao = variacao[1]
          /\ p.df_hist = df_hist[1]
          /\ p.df_pedidos_filtrado = df_pedidos_filtrado[1]
          /\ p.df_ordens_filtrado = df_ordens_filtrado[1]

\* a later cycle with the inputs of the first one, run on another day with
\* a date the user selected
C15_Witness ==
  /\ CicloSeguinte
  /\ MesmasEntradas(primeiro_ciclo.c[1])
  /\ sessSpec # None
  /\ hoje # Some(data_filtrada[1])
  /\ df_ordens_filtrado[1] # <<>>

\* C16: the record sets a cycle uses are the ones the first cycle used (the
\* ones loaded at startup).
C16_CargaUnica ==
  (pc \in CicloPcs /\ primeiro_ciclo.t = "ciclo") =>
    LET p == primeiro_ciclo.c[1]
    IN  /\ pedidos_raw[1] = p.pedidos_raw /\ ordens_raw[1] = p.ordens_raw
        /\ df_pedidos[1] = p.df_pedidos /\ df_ordens[1] = p.df_ordens

\* C17: after normalisation every sold and paid quantity is a number that
\* is not negative, and 0 when the raw value is missing or not a number.
C17_QuantidadesNaoNegativas ==
  /\ df_pedidos # None =>
       \A i \in DOMAIN df_pedidos[1] :
         /\ df_pedidos[1][i].Qtd_Vendida >= 0
         /\ pedidos_raw[1][i].Quantidade_Total.t # "num"
              => df_pedidos[1][i].Qtd_Vendida = 0
  /\ df_ordens # None =>
       \A i \in DOMAIN df_ordens[1] :
         /\ df_ordens[1][i].Qtd_Comprada >= 0
         /\ ordens_raw[1][i].Quantidade_Paga.t # "num"
              => df_ordens[1][i].Qtd_Comprada = 0

\* C18: normalisation of both record sets completes for every raw creation
\* timestamp, and a timestamp that cannot be parsed becomes a null timestamp
\* with a null derived date.
C18_DataInvalidaViraNula ==
  /\ pc # "falhou"
  /\ df_pedidos # None =>
       \A i \in DOMAIN df_pedidos[1] :
         pedidos_raw[1][i].Hora_de_Criacao.t = "str"
           => (df_pedidos[1][i].Hora_de_Criacao = NaT /\ df_pedidos[1][i].Data = None)
  /\ df_ordens # None =>
       \A i \in DOMAIN df_ordens[1] :
         ordens_raw[1][i].Hora_de_Criacao.t = "str" => df_ordens[1][i].Data = None

\* C19: a history reaches the variation code only if every element of the
\* response has both a timestamp and a bid, so no row with a missing field is
\* ever among the rows the variation is computed from.
C19_TodosOsElementosCompletos ==
  pc = "variacao" =>
    /\ \A i \in DOMAIN hist_data[1].els :
         /\ hist_data[1].els[i].timestamp.t # "abs"
         /\ hist_data[1].els[i].bid.t # "abs"
    /\ \A i \in DOMAIN df_hist[1] :
         df_hist[1][i].timestamp # None /\ df_hist[1][i].bid # None

\* C20: a purchase order whose source document carries a sequence number
\* keeps it; only a document without one gets the generated 1-based number.
C20_NumeroDaFontePreservado ==
  df_ordens # None =>
    \A i \in DOMAIN df_ordens[1] :
      LET n == ordens_raw[1][i].Numero_do_Pedido
      IN  df_ordens[1][i].Numero_do_Pedido = IF n.t = "num" THEN n.v ELSE i

====
